---- MODULE Spec2Model ----
(***************************************************************************)
(* The training controller of trainer.py: main() with its resume step, the *)
(* SGD / MultiStepLR construction, the warm-up override, the epoch loop    *)
(* (train, scheduler step, validate, best checkpoint, periodic checkpoint) *)
(* and the checkpoint directory, which outlives a process.                 *)
(*                                                                         *)
(* Learning rates are integers in units of 1e-5 (0.1 = 10000), so that the *)
(* multiplications by 0.1 of the code are exact divisions by 10.           *)
(* Accuracies are integers in percent.                                     *)
(***************************************************************************)
EXTENDS Integers, Sequences, FiniteSets, TLC

\* ---------------------------------------------------------------- bounds
MaxEpochs == 3
MaxAcc == 2
MaxSaveEvery == 2
NumBatches == 2
MaxRuns == 2
LongEpochs == 152
PeriodicEpochs == 25

\* ------------------------------------------------------ program constants
DefaultLr == 10000
DefaultSaveEvery == 10
DefaultBestPrec1 == 0
Milestones == {100, 150}
WarmupArchs == {"resnet1202", "resnet110"}
BestPath == "best_checkpoint.th"

\* the simulated validation metrics of the best-checkpoint test scenario
SimulatedMetrics == <<70, 68, 71, 71, 72>>

VARIABLES
  files,        \* the checkpoint directory: a set of [path, obj]
  save_log,     \* the torch.save calls made so far, in order
  run,          \* number of the current process (1 = first invocation)
  val_loader,   \* the accuracies the validation pass can return
  args,         \* parsed arguments of the current process
  pc,           \* position of the current process in main()
  best_prec1,   \* module global best_prec1
  model,        \* model.state_dict(): number of optimizer steps applied
  optimizer,    \* param_groups[0] of the SGD optimizer
  lr_scheduler, \* the MultiStepLR object
  checkpoint,   \* the checkpoint loaded by the resume step
  epoch,        \* loop variable of the epoch loop
  i,            \* batch index inside train()
  prec1,        \* result of validate() in the epoch loop
  writer,       \* records sent to the SummaryWriter by this process
  train_loader, \* the batches the training pass can draw, by batch index
  losses,       \* AverageMeter losses of train()
  top1,         \* AverageMeter top1 of train()
  batches,      \* the batches train() has processed in this epoch
  grad,         \* batch indices whose gradients are accumulated in .grad
  val_model     \* the parameters the last validation pass evaluated

\* the variables of train()
trainvars == <<losses, top1, batches, grad>>

vars == <<files, save_log, run, val_loader, args, pc, best_prec1, model,
          optimizer, lr_scheduler, checkpoint, epoch, i, prec1, writer,
          train_loader, trainvars, val_model>>

\* ------------------------------------------------------------ pure helpers
\* a max() that returns its first argument
Max2_first(a, b) == a

\* max(prec1, best_prec1)
Max2(a, b) == IF a >= b THEN a ELSE b

\* the largest element of a non-empty set of numbers
SetMax(S) == CHOOSE x \in S : \A y \in S : y <= x

\* a periodic path tagged with the epoch index itself
PeriodicPath_epoch(e) == "checkpoint_" \o ToString(e) \o ".th"

\* os.path.join(args.save_dir, f'checkpoint_{epoch+1}.th')
PeriodicPath(e) == "checkpoint_" \o ToString(e + 1) \o ".th"

\* a dictionary that holds the untrained parameters
CheckpointObj_initial(e, sd, best) ==
  [epoch |-> e + 1, state_dict |-> 0, best_prec1 |-> best]

\* the dictionary handed to torch.save
CheckpointObj(e, sd, best) ==
  [epoch |-> e + 1, state_dict |-> sd, best_prec1 |-> best]

\* a save that adds a record and keeps the one already at path
torch_save_append(fs, obj, path) ==
  fs \cup {[path |-> path, obj |-> obj, readable |-> TRUE]}

\* torch.save(obj, path): the file at path is replaced
torch_save(fs, obj, path) ==
  {f \in fs : f.path # path} \cup {[path |-> path, obj |-> obj, readable |-> TRUE]}

isfile(fs, path) == \E f \in fs : f.path = path

torch_load(fs, path) == (CHOOSE f \in fs : f.path = path).obj

\* torch.load raises on a file it cannot read or unpickle
torch_load_raises(fs, path) == ~(CHOOSE f \in fs : f.path = path).readable

\* a file of the directory that is no loadable checkpoint
UnreadablePath == "unreadable.th"
UnreadableFile ==
  [path |-> UnreadablePath, obj |-> [epoch |-> -1, state_dict |-> 0, best_prec1 |-> 0],
   readable |-> FALSE]

NoCheckpoint == [epoch |-> -1, state_dict |-> 0, best_prec1 |-> 0]

\* x * 0.1 on a learning rate
TimesGamma(x) == x \div 10

\* torch.optim.SGD(model.parameters(), args.lr, ...): a fresh param group
SGD(lr) == [lr |-> lr, initial_lr |-> 0, has_initial_lr |-> FALSE]

NoOptimizer == [lr |-> 0, initial_lr |-> 0, has_initial_lr |-> FALSE]
NoScheduler == [last_epoch |-> -1, base_lr |-> 0]

\* a get_lr that decays one epoch late
MultiStepLR_get_lr_late(last_epoch, lr) ==
  IF (last_epoch - 1) \notin Milestones THEN lr ELSE TimesGamma(lr)

\* MultiStepLR.get_lr(): outside a milestone the group's current lr is kept
MultiStepLR_get_lr(last_epoch, lr) ==
  IF last_epoch \notin Milestones THEN lr ELSE TimesGamma(lr)

\* lr_scheduler.step()
MultiStepLR_step(sched, opt) ==
  LET le == sched.last_epoch + 1 IN
  [scheduler |-> [sched EXCEPT !.last_epoch = le],
   optimizer |-> [opt EXCEPT !.lr = MultiStepLR_get_lr(le, opt.lr)]]

\* LRScheduler.__init__ raises KeyError when last_epoch # -1 and the param
\* group has no 'initial_lr'
MultiStepLR_raises(opt, last_epoch) ==
  last_epoch # -1 /\ ~opt.has_initial_lr

\* MultiStepLR(optimizer, milestones=[100, 150], last_epoch=last_epoch)
MultiStepLR(opt, last_epoch) ==
  LET opt1 == IF last_epoch = -1 /\ ~opt.has_initial_lr
                THEN [opt EXCEPT !.initial_lr = opt.lr, !.has_initial_lr = TRUE]
                ELSE opt
      sched == [last_epoch |-> last_epoch, base_lr |-> opt1.initial_lr]
  IN MultiStepLR_step(sched, opt1)

\* optimizer.step(): one update of the parameters
optimizer_step(m) == m + 1

\* scaler.step(optimizer) / optimizer.step() that never skips
scaler_step_always(m, found_inf) == optimizer_step(m)

\* scaler.step(optimizer): skipped when the unscaled gradients are not finite
scaler_step(m, found_inf) == IF found_inf THEN m ELSE optimizer_step(m)

\* optimizer.zero_grad()
zero_grad(g) == {}

\* AverageMeter.reset(); avg is kept as the exact fraction num/den
AverageMeter_reset ==
  [val |-> 0, avg |-> [num |-> 0, den |-> 1], sum |-> 0, count |-> 0]

\* an update that ignores the weight in the sum
AverageMeter_update_unweighted(m, val, n) ==
  [val |-> val, sum |-> m.sum + val, count |-> m.count + n,
   avg |-> [num |-> m.sum + val, den |-> m.count + n]]

\* AverageMeter.update(val, n)
AverageMeter_update(m, val, n) ==
  LET s == m.sum + val * n
      c == m.count + n
  IN [val |-> val, sum |-> s, count |-> c, avg |-> [num |-> s, den |-> c]]

\* output.topk(1, 1, True, True): per row the class of the largest score;
\* among equal scores the order is whatever the kernel yields
topk(output) ==
  {pred \in [1..Len(output) -> 0..(Len(output[1]) - 1)] :
     \A r \in 1..Len(output) : \A c \in 1..Len(output[r]) :
       output[r][c] <= output[r][pred[r] + 1]}

\* an accuracy that counts the mismatches
accuracy_ne(output, target) ==
  {(Cardinality({r \in 1..Len(target) : pred[r] # target[r]}) * 100) \div Len(target) :
     pred \in topk(output)}

\* accuracy(output, target)[0]: the values the call can return
accuracy(output, target) ==
  {(Cardinality({r \in 1..Len(target) : pred[r] = target[r]}) * 100) \div Len(target) :
     pred \in topk(output)}

\* a batch of the training loader with the loss the criterion gives it
Batch(output, target, loss) == [output |-> output, target |-> target, loss |-> loss]

\* ------------------------------------------------------------------- state
Arg(arch, epochs, resume, start, ev, amp, se) ==
  [arch |-> arch, epochs |-> epochs, resume |-> resume, start_epoch |-> start,
   lr |-> DefaultLr, evaluate |-> ev, amp |-> amp, save_every |-> se]

\* state of a process right after parse_args(), lines 58-75
ProcessStart(a) ==
  /\ args = a
  /\ pc = "resume"
  /\ best_prec1 = DefaultBestPrec1
  /\ model = 0
  /\ optimizer = NoOptimizer
  /\ lr_scheduler = NoScheduler
  /\ checkpoint = NoCheckpoint
  /\ epoch = 0
  /\ i = 0
  /\ prec1 = 0
  /\ losses = AverageMeter_reset
  /\ top1 = AverageMeter_reset
  /\ batches = <<>>
  /\ grad = {}
  /\ val_model = -1

\* short runs: every accuracy of 0..MaxAcc may follow every epoch; one run
\* under --amp, one with --evaluate, one with --start-epoch 1 and one with a
\* resume path that does not exist
SmallArgs ==
  {Arg(arch, MaxEpochs, "", 0, FALSE, FALSE, se) :
     arch \in {"resnet32", "resnet110"}, se \in 1..MaxSaveEvery}
  \cup {Arg("resnet32", MaxEpochs - 1, "", 0, FALSE, TRUE, 1),
        Arg("resnet32", MaxEpochs, "", 0, TRUE, FALSE, 1),
        Arg("resnet32", MaxEpochs, "", 1, FALSE, FALSE, 1),
        Arg("resnet32", MaxEpochs, "missing.th", 0, FALSE, FALSE, 1)}

SmallLoader == [e \in 0..(MaxEpochs - 1) |-> 0..MaxAcc]

\* the simulated run of the best-checkpoint scenario
SeqArgs == {Arg("resnet32", Len(SimulatedMetrics), "", 0, FALSE, FALSE, se) :
              se \in {Len(SimulatedMetrics), DefaultSaveEvery}}

SeqLoader == [e \in 0..(Len(SimulatedMetrics) - 1) |-> {SimulatedMetrics[e + 1]}]

\* the 25-epoch run of the periodic-checkpoint scenario
PeriodicArgs ==
  {Arg("resnet32", PeriodicEpochs, "", 0, FALSE, FALSE, DefaultSaveEvery)}

PeriodicLoader == [e \in 0..(PeriodicEpochs - 1) |-> {50}]

\* full-length runs over both milestones
LongArgs ==
  {Arg(arch, LongEpochs, "", 0, FALSE, FALSE, 5 * DefaultSaveEvery) :
     arch \in {"resnet32", "resnet110"}}
  \cup {Arg("resnet32", LongEpochs, "", 0, TRUE, FALSE, DefaultSaveEvery)}

LongLoader == [e \in 0..(LongEpochs - 1) |-> {50}]

\* one fixed batch per index: scores [[0.1, 0.9], [0.8, 0.2]], targets [1, 0]
PlainTrainLoader ==
  [b \in 0..(NumBatches - 1) |-> {Batch(<<<<1, 9>>, <<8, 2>>>>, <<1, 0>>, 1)}]

\* batches of one and two examples, with and without equal scores
MeterBatches ==
  {Batch(<<<<1, 9>>, <<8, 2>>>>, <<1, 0>>, 1),
   Batch(<<<<1, 9>>, <<8, 2>>>>, <<0, 1>>, 3),
   Batch(<<<<1, 9>>, <<8, 2>>>>, <<1, 1>>, 2),
   Batch(<<<<5, 5>>>>, <<1>>, 2)}

MeterTrainLoader == [b \in 0..(NumBatches - 1) |-> MeterBatches]

\* runs over MeterBatches: two epochs, one epoch with --amp, and --evaluate
MeterArgs ==
  {Arg("resnet32", 2, "", 0, FALSE, FALSE, 2),
   Arg("resnet32", 1, "", 0, FALSE, TRUE, 2),
   Arg("resnet32", 2, "", 0, TRUE, FALSE, 2)}

MeterLoader == [e \in 0..1 |-> {50}]

InitWith(A, V, T) ==
  /\ files = {}
  /\ save_log = <<>>
  /\ writer = <<>>
  /\ run = 1
  /\ val_loader = V
  /\ train_loader = T
  /\ \E a \in A : ProcessStart(a)

\* a directory that holds a file torch.load cannot read, named by --resume
InitUnreadable ==
  /\ files = {UnreadableFile}
  /\ save_log = <<>>
  /\ writer = <<>>
  /\ run = 1
  /\ val_loader = SmallLoader
  /\ train_loader = PlainTrainLoader
  /\ ProcessStart(Arg("resnet32", MaxEpochs, UnreadablePath, 0, FALSE, FALSE, 1))

Init ==
  \/ InitWith(SmallArgs, SmallLoader, PlainTrainLoader)
  \/ InitWith(SeqArgs, SeqLoader, PlainTrainLoader)
  \/ InitWith(PeriodicArgs, PeriodicLoader, PlainTrainLoader)
  \/ InitUnreadable

InitLong == InitWith(LongArgs, LongLoader, PlainTrainLoader)

InitMeter == InitWith(MeterArgs, MeterLoader, MeterTrainLoader)

\* writer.add_scalar(tag, value, step)
add_scalar(w, tag, value, step) ==
  Append(w, [run |-> run, tag |-> tag, value |-> value, step |-> step])

\* ----------------------------------------------------------------- actions
\* lines 78-88: optionally resume from a checkpoint
Resume ==
  /\ pc = "resume"
  /\ IF args.resume # "" /\ isfile(files, args.resume)
       THEN IF torch_load_raises(files, args.resume)
              THEN /\ pc' = "crashed"
                   /\ UNCHANGED <<checkpoint, args, best_prec1, model>>
              ELSE LET ck == torch_load(files, args.resume) IN
                   /\ checkpoint' = ck
                   /\ args' = [args EXCEPT !.start_epoch = ck.epoch]
                   /\ best_prec1' = ck.best_prec1
                   /\ model' = ck.state_dict
                   /\ pc' = "optimizer"
       ELSE /\ pc' = "optimizer"
            /\ UNCHANGED <<checkpoint, args, best_prec1, model>>
  /\ UNCHANGED <<files, save_log, run, val_loader, optimizer, lr_scheduler,
                 epoch, i, prec1, writer, train_loader, trainvars, val_model>>

\* lines 120-125: build the optimizer and the schedule; the schedule's
\* constructor raises on a fresh optimizer when last_epoch is not -1
BuildOptimizer ==
  /\ pc = "optimizer"
  /\ LET opt == SGD(args.lr)
         last == args.start_epoch - 1
     IN IF MultiStepLR_raises(opt, last)
          THEN /\ optimizer' = opt
               /\ pc' = "crashed"
               /\ UNCHANGED lr_scheduler
          ELSE LET r == MultiStepLR(opt, last) IN
               /\ optimizer' = r.optimizer
               /\ lr_scheduler' = r.scheduler
               /\ pc' = "warmup"
  /\ UNCHANGED <<files, save_log, run, val_loader, args, best_prec1, model,
                 checkpoint, epoch, i, prec1, writer,
                 train_loader, trainvars, val_model>>

\* lines 127-131: warm-up override of the param group's lr
WarmUp ==
  /\ pc = "warmup"
  /\ optimizer' = IF args.arch \in WarmupArchs
                    THEN [optimizer EXCEPT !.lr = TimesGamma(args.lr)]
                    ELSE optimizer
  /\ pc' = "evaluate"
  /\ UNCHANGED <<files, save_log, run, val_loader, args, best_prec1, model,
                 lr_scheduler, checkpoint, epoch, i, prec1, writer,
                 train_loader, trainvars, val_model>>

\* lines 134-136: evaluate-only mode, validate(val_loader, model, criterion)
EvaluateOnly ==
  /\ pc = "evaluate"
  /\ args.evaluate
  /\ \E e \in DOMAIN val_loader : \E m \in val_loader[e] :
       writer' = add_scalar(writer, "test accuracy", m, -1)
  /\ val_model' = model
  /\ pc' = "done"
  /\ UNCHANGED <<files, save_log, run, val_loader, args, best_prec1, model,
                 optimizer, lr_scheduler, checkpoint, epoch, i, prec1,
                 train_loader, trainvars>>

\* lines 138-142: enter the epoch loop at args.start_epoch
StartTraining ==
  /\ pc = "evaluate"
  /\ ~args.evaluate
  /\ epoch' = args.start_epoch
  /\ pc' = "loop"
  /\ UNCHANGED <<files, save_log, run, val_loader, args, best_prec1, model,
                 optimizer, lr_scheduler, checkpoint, i, prec1, writer,
                 train_loader, trainvars, val_model>>

\* lines 142-148 and 189-197: next epoch of range(start_epoch, epochs);
\* report the lr; train() starts with fresh meters
EpochBegin ==
  /\ pc = "loop"
  /\ epoch < args.epochs
  /\ writer' = add_scalar(writer, "learning rate", optimizer.lr, epoch)
  /\ i' = 0
  /\ losses' = AverageMeter_reset
  /\ top1' = AverageMeter_reset
  /\ batches' = <<>>
  /\ pc' = "train"
  /\ UNCHANGED <<files, save_log, run, val_loader, args, best_prec1, model,
                 optimizer, lr_scheduler, checkpoint, epoch, prec1,
                 train_loader, grad, val_model>>

\* line 142: the range is exhausted, main() returns
LoopExit ==
  /\ pc = "loop"
  /\ epoch >= args.epochs
  /\ pc' = "done"
  /\ UNCHANGED <<files, save_log, run, val_loader, args, best_prec1, model,
                 optimizer, lr_scheduler, checkpoint, epoch, i, prec1, writer,
                 train_loader, trainvars, val_model>>

\* lines 198-237: one batch of train(); under amp scaler.step skips the
\* optimizer step when the gradients are not finite
TrainBatch ==
  /\ pc = "train"
  /\ i < NumBatches
  /\ \E b \in train_loader[i] :
     \E found_inf \in (IF args.amp THEN BOOLEAN ELSE {FALSE}) :
     \E acc \in accuracy(b.output, b.target) :
       /\ grad' = zero_grad(grad) \cup {i}
       /\ model' = IF args.amp THEN scaler_step(model, found_inf)
                               ELSE optimizer_step(model)
       /\ losses' = AverageMeter_update(losses, b.loss, Len(b.target))
       /\ top1' = AverageMeter_update(top1, acc, Len(b.target))
       /\ batches' = Append(batches,
            [idx |-> i, batch |-> b, prec1 |-> acc, stepped |-> ~found_inf])
  /\ i' = i + 1
  /\ UNCHANGED <<files, save_log, run, val_loader, args, pc, best_prec1,
                 optimizer, lr_scheduler, checkpoint, epoch, prec1, writer,
                 train_loader, val_model>>

\* lines 253-254 and 150-152: train() returns, lr_scheduler.step()
SchedulerStep ==
  /\ pc = "train"
  /\ i = NumBatches
  /\ LET r == MultiStepLR_step(lr_scheduler, optimizer) IN
     /\ lr_scheduler' = r.scheduler
     /\ optimizer' = r.optimizer
  /\ writer' = add_scalar(add_scalar(writer, "training loss", losses.avg, epoch),
                         "training accuracy", top1.avg, epoch)
  /\ pc' = "validate"
  /\ UNCHANGED <<files, save_log, run, val_loader, args, best_prec1, model,
                 checkpoint, epoch, i, prec1,
                 train_loader, trainvars, val_model>>

\* lines 155-158 and 257-308: prec1 = validate(val_loader, model, criterion, epoch)
Validate ==
  /\ pc = "validate"
  /\ epoch \in DOMAIN val_loader
  /\ \E m \in val_loader[epoch] :
       /\ prec1' = m
       /\ writer' = add_scalar(writer, "test accuracy", m, epoch)
  /\ val_model' = model
  /\ pc' = "best"
  /\ UNCHANGED <<files, save_log, run, val_loader, args, best_prec1, model,
                 optimizer, lr_scheduler, checkpoint, epoch, i,
                 train_loader, trainvars>>

\* a comparison that also accepts an equal metric
IsBest_or_equal(p, best) == p >= best

\* is_best = prec1 > best_prec1
IsBest(p, best) == p > best

\* lines 160-168: remember best prec@1 and save the best checkpoint
RememberBest ==
  /\ pc = "best"
  /\ LET is_best == IsBest(prec1, best_prec1)
         best == Max2(prec1, best_prec1)
         obj == CheckpointObj(epoch, model, best)
     IN /\ best_prec1' = best
        /\ IF is_best
             THEN /\ files' = torch_save(files, obj, BestPath)
                  /\ save_log' = Append(save_log,
                       [run |-> run, epoch |-> epoch, path |-> BestPath, obj |-> obj])
             ELSE UNCHANGED <<files, save_log>>
  /\ pc' = "periodic"
  /\ UNCHANGED <<run, val_loader, args, model, optimizer, lr_scheduler,
                 checkpoint, epoch, i, prec1, writer,
                 train_loader, trainvars, val_model>>

\* a periodic test without the epoch > 0 condition
IsPeriodic_from_zero(e, save_every) == (e + 1) % save_every = 0

\* epoch > 0 and (epoch + 1) % args.save_every == 0
IsPeriodic(e, save_every) == e > 0 /\ (e + 1) % save_every = 0

\* lines 170-182: save checkpoint regularly, then the loop advances
SavePeriodic ==
  /\ pc = "periodic"
  /\ LET obj == CheckpointObj(epoch, model, best_prec1) IN
     IF IsPeriodic(epoch, args.save_every)
       THEN /\ files' = torch_save(files, obj, PeriodicPath(epoch))
            /\ save_log' = Append(save_log,
                 [run |-> run, epoch |-> epoch, path |-> PeriodicPath(epoch),
                  obj |-> obj])
       ELSE UNCHANGED <<files, save_log>>
  /\ epoch' = epoch + 1
  /\ pc' = "loop"
  /\ UNCHANGED <<run, val_loader, args, best_prec1, model, optimizer,
                 lr_scheduler, checkpoint, i, prec1, writer,
                 train_loader, trainvars, val_model>>

Running == {"resume", "optimizer", "warmup", "evaluate", "loop", "train",
            "validate", "best", "periodic"}

\* the process is interrupted; the checkpoint directory stays as it is
Interrupt ==
  /\ pc \in Running
  /\ pc' = "killed"
  /\ UNCHANGED <<files, save_log, run, val_loader, args, best_prec1, model,
                 optimizer, lr_scheduler, checkpoint, epoch, i, prec1, writer,
                 train_loader, trainvars, val_model>>

\* lines 344-345 with --resume: a new process of the same experiment is
\* started on a file of the checkpoint directory, with or without --evaluate
Relaunch ==
  /\ pc \in {"done", "crashed", "killed"}
  /\ run < MaxRuns
  /\ run' = run + 1
  /\ \E f \in files : \E ev \in BOOLEAN :
       /\ args' = [args EXCEPT !.resume = f.path, !.start_epoch = 0,
                                !.evaluate = ev]
       /\ pc' = "resume"
       /\ best_prec1' = DefaultBestPrec1
       /\ model' = 0
       /\ optimizer' = NoOptimizer
       /\ lr_scheduler' = NoScheduler
       /\ checkpoint' = NoCheckpoint
       /\ epoch' = 0
       /\ i' = 0
       /\ prec1' = 0
       /\ losses' = AverageMeter_reset
       /\ top1' = AverageMeter_reset
       /\ batches' = <<>>
       /\ grad' = {}
       /\ val_model' = -1
  /\ UNCHANGED <<files, save_log, val_loader, writer,
                 train_loader>>

Next ==
  \/ Resume
  \/ BuildOptimizer
  \/ WarmUp
  \/ EvaluateOnly
  \/ StartTraining
  \/ EpochBegin
  \/ LoopExit
  \/ TrainBatch
  \/ SchedulerStep
  \/ Validate
  \/ RememberBest
  \/ SavePeriodic
  \/ Interrupt
  \/ Relaunch

Spec == Init /\ [][Next]_vars

\* the same program on full-length runs
SpecLong == InitLong /\ [][Next]_vars

\* the same program on varied training batches
SpecMeter == InitMeter /\ [][Next]_vars

\* ------------------------------------------------- what a process has done
RunAcc == SelectSeq(writer, LAMBDA r :
            r.run = run /\ r.tag = "test accuracy" /\ r.step >= 0)
RunLr == SelectSeq(writer, LAMBDA r : r.run = run /\ r.tag = "learning rate")
RunSaves == SelectSeq(save_log, LAMBDA r : r.run = run)

\* epochs this process has started, and those whose best-metric comparison
\* (DecidedEpochs) or whole body (CompletedEpochs) is behind it
ExecutedEpochs == {RunLr[k].step : k \in 1..Len(RunLr)}
DecidedEpochs == {e \in ExecutedEpochs : e < epoch \/ (e = epoch /\ pc = "periodic")}
CompletedEpochs == {e \in ExecutedEpochs : e < epoch}
AccAt(e) == RunAcc[CHOOSE k \in 1..Len(RunAcc) : RunAcc[k].step = e].value

\* an interrupted process stays as it was one step earlier, except for pc
Alive == pc # "killed"

Resumed == checkpoint.epoch # -1
InitialBest == IF Resumed THEN checkpoint.best_prec1 ELSE DefaultBestPrec1
BestBefore(e) ==
  SetMax({InitialBest} \cup {AccAt(d) : d \in {x \in DecidedEpochs : x < e}})
BestSaveEpochs ==
  {RunSaves[k].epoch : k \in {j \in 1..Len(RunSaves) : RunSaves[j].path = BestPath}}
PeriodicSaveEpochs ==
  {RunSaves[k].epoch : k \in {j \in 1..Len(RunSaves) : RunSaves[j].path # BestPath}}
AccValues == [k \in 1..Len(RunAcc) |-> RunAcc[k].value]

\* ------------------------------------------------------------------ claims

\* C1: a best checkpoint is written after an epoch exactly when that epoch's
\* validation metric is strictly greater than the best metric before the
\* epoch; for the metrics 70, 68, 71, 71, 72 of a fresh run the best writes
\* are those of epochs 0, 2 and 4.
BestWriteIffStrictlyBetter ==
  Alive =>
  /\ \A e \in DecidedEpochs : (e \in BestSaveEpochs) <=> (AccAt(e) > BestBefore(e))
  /\ BestSaveEpochs \subseteq DecidedEpochs
  /\ (~Resumed /\ pc = "done" /\ AccValues = SimulatedMetrics)
       => BestSaveEpochs = {0, 2, 4}

BestWriteWitness ==
  /\ pc = "done"
  /\ ~Resumed
  /\ AccValues = SimulatedMetrics
  /\ BestSaveEpochs = {0, 2, 4}

\* C6: a periodic checkpoint tagged e+1 is written after epoch e exactly when
\* e > 0 and (e+1) mod save_every = 0, best epoch or not.
PeriodicWriteTiming ==
  Alive =>
  /\ \A e \in CompletedEpochs :
       (e \in PeriodicSaveEpochs) <=> (e > 0 /\ (e + 1) % args.save_every = 0)
  /\ PeriodicSaveEpochs \subseteq DecidedEpochs
  /\ \A k \in 1..Len(RunSaves) :
       RunSaves[k].path # BestPath =>
         /\ RunSaves[k].path = PeriodicPath(RunSaves[k].epoch)
         /\ RunSaves[k].obj.epoch = RunSaves[k].epoch + 1

PeriodicWriteWitness ==
  /\ pc = "done"
  /\ args.save_every = 10
  /\ args.epochs = 25
  /\ args.start_epoch = 0
  /\ PeriodicSaveEpochs = {9, 19}
  /\ BestSaveEpochs = {0}

\* the learning rate after k cumulative 10x reductions
RECURSIVE Reduced(_, _)
Reduced(lr, k) == IF k = 0 THEN lr ELSE Reduced(lr, k - 1) \div 10
MilestonesPassed(e) == Cardinality({m \in Milestones : m <= e})
ScheduleLr(lr, e) == Reduced(lr, MilestonesPassed(e))

\* C5: in an uninterrupted run from epoch 0 of a non-warm-up architecture the
\* learning rate reported and used for epoch e is the base rate reduced 10x
\* once per milestone <= e, and the schedule is advanced exactly once per
\* epoch, after the training pass and before the validation pass.
LrFollowsMilestones ==
  (Alive /\ ~Resumed /\ args.start_epoch = 0 /\ ~args.evaluate
     /\ args.arch \notin WarmupArchs) =>
    /\ pc = "train" =>
         /\ optimizer.lr = ScheduleLr(args.lr, epoch)
         /\ writer[Len(writer)] =
              [run |-> run, tag |-> "learning rate",
               value |-> ScheduleLr(args.lr, epoch), step |-> epoch]
    /\ pc \in {"loop", "train", "done"} => lr_scheduler.last_epoch = epoch
    /\ pc \in {"validate", "best", "periodic"} => lr_scheduler.last_epoch = epoch + 1

LrFollowsMilestonesWitness ==
  /\ pc = "train"
  /\ epoch = 150
  /\ args.arch = "resnet32"
  /\ args.start_epoch = 0
  /\ optimizer.lr = 100
  /\ lr_scheduler.last_epoch = 150

\* C8: within a process best_prec1 never decreases once initialized, and
\* after every completed epoch it is the maximum of its initial value and
\* the validation metrics of the epochs run so far in that process.
BestMetricIsRunningMax ==
  /\ [](Alive => best_prec1 =
          SetMax({InitialBest} \cup {AccAt(e) : e \in DecidedEpochs}))
  /\ [][(pc # "resume" /\ run' = run) => best_prec1' >= best_prec1]_vars

BestMetricWitness ==
  /\ pc = "done"
  /\ Len(AccValues) >= 2
  /\ AccValues[1] > AccValues[2]
  /\ best_prec1 = AccValues[1]
  /\ best_prec1 > InitialBest

\* C9: at most one best record exists in the checkpoint directory, it holds
\* the highest validation metric compared so far, and over epochs,
\* interruptions and resumes from records of the run its stored best_prec1
\* never decreases from one overwrite to the next.
BestRecords == {f \in files : f.path = BestPath}

SingleBestRecordNeverDecreases ==
  /\ [](/\ Cardinality(BestRecords) <= 1
        /\ Alive => \A f \in BestRecords :
             /\ \A e \in DecidedEpochs : AccAt(e) <= f.obj.best_prec1
             /\ \E k \in 1..Len(writer) :
                  /\ writer[k].tag = "test accuracy"
                  /\ writer[k].value = f.obj.best_prec1)
  /\ [][\A f \in BestRecords : \E g \in BestRecords' :
          g.obj.best_prec1 >= f.obj.best_prec1]_vars

SingleBestRecordWitness ==
  /\ run >= 2
  /\ pc = "crashed"
  /\ Resumed
  /\ \E f \in BestRecords : checkpoint.best_prec1 < f.obj.best_prec1
  /\ Cardinality({k \in 1..Len(save_log) : save_log[k].path = BestPath}) >= 2

\* C10: on a fresh start the validation of the first executed epoch always
\* writes the best checkpoint, whatever its value, an accuracy of 0 included.
FreshFirstEpochWritesBest ==
  (Alive /\ ~Resumed /\ DecidedEpochs # {}) =>
    (CHOOSE e \in DecidedEpochs : \A d \in DecidedEpochs : e <= d) \in BestSaveEpochs

\* C2: a process that loaded a checkpoint with epoch E and best_prec1 B
\* executes E as its first epoch, and writes no checkpoint unless one of its
\* validation metrics exceeds B.
ResumedRunStartsAtCheckpointEpoch ==
  (Resumed /\ pc \in {"done", "crashed"} /\ ~args.evaluate
     /\ checkpoint.epoch < args.epochs) =>
    /\ Len(RunLr) >= 1
    /\ RunLr[1].step = checkpoint.epoch
    /\ \A k \in 1..Len(RunSaves) :
         \E j \in 1..Len(RunAcc) : RunAcc[j].value > checkpoint.best_prec1

\* the rate of epoch e in a run that was built at epoch 0 and never stopped
RECURSIVE UninterruptedLr(_, _)
UninterruptedLr(lr, e) ==
  IF e = 0 THEN MultiStepLR(SGD(lr), -1).optimizer.lr
  ELSE MultiStepLR_get_lr(e, UninterruptedLr(lr, e - 1))

\* C3: for every start epoch s, building the schedule does not fail, and
\* every epoch e >= s is trained at the rate the uninterrupted run from
\* epoch 0 uses for e.
ScheduleResumable ==
  /\ pc = "crashed" => args.start_epoch = 0
  /\ (pc = "train" /\ args.arch \notin WarmupArchs) =>
       optimizer.lr = UninterruptedLr(args.lr, epoch)

\* C4: a warm-up architecture started at epoch 0 trains epoch 0 at lr/10 and
\* every later epoch at the rate of the normal milestone schedule.
WarmupFirstEpochOnly ==
  (pc = "train" /\ args.arch \in WarmupArchs /\ ~Resumed /\ args.start_epoch = 0) =>
    optimizer.lr = IF epoch = 0 THEN args.lr \div 10 ELSE ScheduleLr(args.lr, epoch)

\* C7: a checkpoint written after epoch e records e+1, the parameters and
\* best_prec1 of that moment; a process that loads it restores them and
\* executes exactly the epochs e+1 .. epochs-1, in order.
CheckpointResumesAfterItsEpoch ==
  /\ \A k \in 1..Len(save_log) : save_log[k].obj.epoch = save_log[k].epoch + 1
  /\ (Alive /\ pc = "periodic" /\ epoch \in BestSaveEpochs) =>
       RunSaves[Len(RunSaves)].obj = CheckpointObj(epoch, model, best_prec1)
  /\ (Resumed /\ pc = "optimizer") =>
       /\ args.start_epoch = checkpoint.epoch
       /\ best_prec1 = checkpoint.best_prec1
       /\ model = checkpoint.state_dict
  /\ (Resumed /\ pc \in {"done", "crashed"} /\ ~args.evaluate) =>
       /\ Len(RunLr) = Max2(args.epochs - checkpoint.epoch, 0)
       /\ \A k \in 1..Len(RunLr) : RunLr[k].step = checkpoint.epoch + k - 1

\* the validation records of this process, evaluate-only ones included
RunValidations == SelectSeq(writer, LAMBDA r : r.run = run /\ r.tag = "test accuracy")

\* the parameters a process holds before any training step
InitialModel == IF Resumed THEN checkpoint.state_dict ELSE 0

\* C11: a process started with --evaluate, on a fresh or a resumed model,
\* ends having run the validation pass exactly once on that model, with no
\* batch trained, no schedule step, parameters and best_prec1 untouched and
\* nothing saved.
EvaluateOnlyValidatesOnce ==
  (args.evaluate /\ (args.resume = "" \/ Resumed) /\ pc \in {"done", "crashed"}) =>
    /\ pc = "done"
    /\ Len(RunValidations) = 1
    /\ val_model = InitialModel
    /\ model = InitialModel
    /\ best_prec1 = InitialBest
    /\ batches = <<>>
    /\ RunLr = <<>>
    /\ RunSaves = <<>>

\* C12: a process whose --resume path is missing or cannot be read keeps the
\* default start epoch, best_prec1 and parameters and goes on to the epoch
\* loop.
ResumeNotFoundNotFatal ==
  (args.resume # "" /\ ~Resumed /\ args.start_epoch = 0 /\ ~args.evaluate
     /\ pc \notin {"resume", "killed"}) =>
    /\ pc # "crashed"
    /\ best_prec1 >= DefaultBestPrec1
    /\ (pc = "optimizer" => (best_prec1 = DefaultBestPrec1 /\ model = 0))
    /\ (pc = "done" => ExecutedEpochs = 0..(args.epochs - 1))

\* C13: a training process that got past the resume step ends having
\* executed exactly the epochs start_epoch .. epochs-1, each once and in
\* increasing order, and nothing at all when start_epoch >= epochs.
EpochsRunOnceInOrder ==
  (~args.evaluate /\ ((args.resume # "" /\ isfile(files, args.resume)) => Resumed)
     /\ pc \in {"done", "crashed"}) =>
    /\ Len(RunLr) = Max2(args.epochs - args.start_epoch, 0)
    /\ \A k \in 1..Len(RunLr) : RunLr[k].step = args.start_epoch + k - 1
    /\ (args.start_epoch >= args.epochs => RunSaves = <<>>)

\* the update calls the meters of train() received since their reset: weight,
\* weighted loss and weighted accuracy of the batches processed so far
BatchWeight(k) == Len(batches[k].batch.target)
WeightSum ==
  LET S[k \in 0..Len(batches)] == IF k = 0 THEN 0 ELSE S[k - 1] + BatchWeight(k)
  IN S[Len(batches)]
LossSum ==
  LET S[k \in 0..Len(batches)] ==
        IF k = 0 THEN 0 ELSE S[k - 1] + batches[k].batch.loss * BatchWeight(k)
  IN S[Len(batches)]
Prec1Sum ==
  LET S[k \in 0..Len(batches)] ==
        IF k = 0 THEN 0 ELSE S[k - 1] + batches[k].prec1 * BatchWeight(k)
  IN S[Len(batches)]

\* what a meter must hold after the updates of the batches processed so far,
\* given the weighted sum and the last value of the quantity it averages
MeterHolds(m, total, last) ==
  /\ m.count = WeightSum
  /\ m.sum = total
  /\ m.val = last
  /\ m.avg.den > 0
  /\ m.avg.num * m.count = m.sum * m.avg.den
  /\ (batches = <<>>) => m = [val |-> 0, avg |-> [num |-> 0, den |-> 1],
                               sum |-> 0, count |-> 0]

\* C14: after any sequence of update(v, w) calls since the last reset, count
\* is the sum of the weights, sum the sum of v * w, val the last v and
\* avg * count = sum; after reset(), and before any update, val, avg, sum and
\* count are zero, avg being the zero that reset() stored.
MeterTracksWeightedSums ==
  /\ MeterHolds(losses, LossSum,
                IF batches = <<>> THEN 0 ELSE batches[Len(batches)].batch.loss)
  /\ MeterHolds(top1, Prec1Sum,
                IF batches = <<>> THEN 0 ELSE batches[Len(batches)].prec1)

\* the second epoch's meters, reset after a used first epoch, have taken two
\* updates of different weights and hold an average that is no integer
MeterTracksWitness ==
  /\ epoch = 1
  /\ Len(batches) = 2
  /\ BatchWeight(1) # BatchWeight(2)
  /\ losses.sum % losses.count # 0

\* a batch of scores in which every row has one strictly largest score, and
\* the class that holds it
NoTies(output) ==
  \A r \in 1..Len(output) : \E c \in 1..Len(output[r]) :
    \A d \in 1..Len(output[r]) : d # c => output[r][d] < output[r][c]
HighestClass(row) ==
  (CHOOSE c \in 1..Len(row) : \A d \in 1..Len(row) : d # c => row[d] < row[c]) - 1
CorrectCount(b) ==
  Cardinality({r \in 1..Len(b.target) : HighestClass(b.output[r]) = b.target[r]})

\* the scores [[0.1, 0.9], [0.8, 0.2]] in tenths
ExampleScores == <<<<1, 9>>, <<8, 2>>>>

\* C15: for every processed batch whose scores have no ties, the value
\* accuracy() returned is 100 * (examples whose highest-scored class is the
\* target) / batch size; on the example scores it is 100 for targets [1, 0]
\* and 0 for targets [0, 1].
AccuracyIsPercentCorrect ==
  /\ \A k \in 1..Len(batches) :
       NoTies(batches[k].batch.output) =>
         batches[k].prec1 * BatchWeight(k) = 100 * CorrectCount(batches[k].batch)
  /\ accuracy(ExampleScores, <<1, 0>>) = {100}
  /\ accuracy(ExampleScores, <<0, 1>>) = {0}

\* an epoch whose two batches were the example scores, scored 100 against
\* targets [1, 0] and 0 against targets [0, 1]
AccuracyWitness ==
  /\ Len(batches) = 2
  /\ batches[1].batch.output = ExampleScores /\ batches[1].batch.target = <<1, 0>>
  /\ batches[1].prec1 = 100
  /\ batches[2].batch.output = ExampleScores /\ batches[2].batch.target = <<0, 1>>
  /\ batches[2].prec1 = 0

\* C16: train() takes the batches of the loader one by one, each exactly once
\* per epoch, and at each step only the gradients of that batch are held;
\* a batch whose step the scaler skips leaves the parameters as they were,
\* still adds its loss and accuracy, weighted by its size, to the meters,
\* and is followed by the rest of the epoch.
TrainProcessesEveryBatchOnce ==
  /\ [](/\ pc = "train" => Len(batches) = i
        /\ pc \in {"validate", "best", "periodic"} => Len(batches) = NumBatches
        /\ \A k \in 1..Len(batches) : batches[k].idx = k - 1
        /\ batches # <<>> => grad = {batches[Len(batches)].idx})
  /\ [][(pc = "train" /\ i' = i + 1) =>
          LET b == batches'[Len(batches')]
              n == Len(b.batch.target)
          IN /\ batches' = Append(batches, b)
             /\ b.batch \in train_loader[i]
             /\ ~b.stepped => model' = model
             /\ b.stepped => model' # model
             /\ losses'.sum = losses.sum + b.batch.loss * n
             /\ losses'.count = losses.count + n
             /\ top1'.sum = top1.sum + b.prec1 * n
             /\ top1'.count = top1.count + n
             /\ pc' = "train"
             /\ epoch' = epoch]_vars

\* a mixed-precision epoch whose first batch was skipped and whose second
\* batch was applied, both counted by the meters
TrainSkippedBatchWitness ==
  /\ args.amp
  /\ pc = "train"
  /\ i = 2
  /\ ~batches[1].stepped
  /\ batches[2].stepped
  /\ model = 1
  /\ losses.count = BatchWeight(1) + BatchWeight(2)

\* a training process that started at epoch 0 on fresh parameters
FreshTraining == Alive /\ ~Resumed /\ args.start_epoch = 0 /\ ~args.evaluate

\* the directory holds the periodic checkpoint tagged e+1
PeriodicRecordExists(e) ==
  \E f \in files : /\ f.path = "checkpoint_" \o ToString(e + 1) \o ".th"
                    /\ f.obj.epoch = e + 1

\* epochs completed since the start of the run or since the last periodic
\* checkpoint of the run
EpochsSincePeriodic ==
  Cardinality(CompletedEpochs) - SetMax({0} \cup {e + 1 : e \in PeriodicSaveEpochs})

BestRecordHoldsValidatedModel ==
  /\ [][Len(save_log') > Len(save_log) =>
          LET r == save_log'[Len(save_log')]
          IN /\ pc \in {"best", "periodic"}
             /\ r.epoch = epoch
             /\ r.obj.epoch = epoch + 1
             /\ r.obj.state_dict = val_model
             /\ r.path = BestPath => r.obj.best_prec1 = prec1
             /\ r \in {[path |-> f.path, obj |-> f.obj, run |-> run, epoch |-> epoch] :
                         f \in files'}]_vars
  /\ [][(pc \in {"best", "periodic"}) =>
          (/\ model' = model
           /\ optimizer' = optimizer
           /\ lr_scheduler' = lr_scheduler
           /\ checkpoint' = checkpoint
           /\ val_model' = val_model
           /\ batches' = batches)]_vars
  /\ [](\A j, k \in 1..Len(save_log) :
          (save_log[j].run = save_log[k].run /\ save_log[j].epoch = save_log[k].epoch)
            => save_log[j].obj = save_log[k].obj)
  /\ []((Alive /\ pc \in {"best", "periodic"}) => model = val_model)

\* an epoch after which both the best and the periodic record were written,
\* holding the trained parameters that were validated
BestAndPeriodicWitness ==
  /\ pc = "loop"
  /\ Len(RunSaves) >= 2
  /\ RunSaves[Len(RunSaves) - 1].path = BestPath
  /\ RunSaves[Len(RunSaves)].path # BestPath
  /\ RunSaves[Len(RunSaves) - 1].epoch = RunSaves[Len(RunSaves)].epoch
  /\ RunSaves[Len(RunSaves)].obj.state_dict = val_model
  /\ val_model > 0
====
